---- MODULE Spec2Model ----
(***************************************************************************)
(* Model of the RFking static web viewer: the main thread                  *)
(* (computeCoverage and the worker.onmessage closure) and the coverage     *)
(* worker (web/worker.js: sampleGrid, deygoutLoss and the row loop of      *)
(* self.onmessage).                                                        *)
(*                                                                         *)
(* Numbers.  The JavaScript works on doubles; the model works on exact     *)
(* rationals kept as integer numerator/denominator pairs, so rounding is   *)
(* not modelled.  NaN and Infinity are modelled where the code can         *)
(* produce them from the inputs considered (0/0 progress, non-positive     *)
(* frequency, zero step length).                                           *)
(***************************************************************************)
EXTENDS Integers, Sequences, FiniteSets, TLC

VARIABLES
  \* ---- main thread (src/unnamed/part_000) ----
  loaded,        \* meta, chmData, dtmData fetched (loadData)
  worker,        \* `worker` is non-null
  closureF,      \* the `f` captured by the worker.onmessage closure
  statusEl,      \* statusEl.textContent
  progressText,  \* progressText.textContent
  overlay,       \* the image overlay on the map
  \* ---- message channels between the two threads ----
  inbox,         \* requests posted by worker.postMessage, not yet handled
  outbox,        \* messages posted by self.postMessage, not yet handled
  \* ---- worker thread (src/web/worker.js) ----
  wpc,           \* position of self.onmessage
  wreq,          \* e.data of the request being handled
  r,             \* row counter of the outer loop
  data,          \* the Uint8ClampedArray, one entry per output cell
  spin,          \* iterations of a ray march that has no end
  \* ---- history (not program state) ----
  issued,        \* every request posted so far, in order
  posted,        \* every message the worker has posted, in order
  applied,       \* what the main thread did on the 'done' messages it handled
  \* ---- sampleGrid on its own ----
  sIn, sOut,
  \* ---- deygoutLoss on its own ----
  dRoot, dFreq, dStack, dLoss, dCalls

appVars    == <<loaded, worker, closureF, statusEl, progressText, overlay>>
chanVars   == <<inbox, outbox>>
workerVars == <<wpc, wreq, r, data, spin>>
histVars   == <<issued, posted, applied>>
sampleVars == <<sIn, sOut>>
deyVars    == <<dRoot, dFreq, dStack, dLoss, dCalls>>
vars == <<appVars, chanVars, workerVars, histVars, sampleVars, deyVars>>

Max(a, b) == IF a >= b THEN a ELSE b

None == [none |-> TRUE]

(***************************************************************************)
(* sampleGrid, worker.js 65-98.  The closure variables width, height,      *)
(* minx, maxy, dx, dy and valid are the fields of the grid g.  The point   *)
(* is (xn/den, yn/den).  col = (x - minx) / dx with dx = (maxx-minx)/width *)
(* is the fraction colN/colD below; likewise row.                          *)
(***************************************************************************)
Null == [null |-> TRUE, nan |-> FALSE, num |-> 0, den |-> 1]

\* arr[i] of a typed array: `undefined` outside 0..length-1
Undefined == [undefined |-> TRUE]
at(arr, i) == IF i \in DOMAIN arr THEN arr[i] ELSE Undefined

colN(g, xn, den) == (xn - g.bounds.minx * den) * g.width
colD(g, den)     == (g.bounds.maxx - g.bounds.minx) * den
rowN(g, yn, den) == (g.bounds.maxy * den - yn) * g.height
rowD(g, den)     == (g.bounds.maxy - g.bounds.miny) * den

\* lines 69-72 and 81-84: the four cells and their linear indices
corners(g, xn, yn, den) ==
  LET c0 == colN(g, xn, den) \div colD(g, den)
      r0 == rowN(g, yn, den) \div rowD(g, den)
      c1 == c0 + 1
      r1 == r0 + 1
  IN  [c0 |-> c0, r0 |-> r0, c1 |-> c1, r1 |-> r1,
       idx00 |-> r0 * g.width + c0, idx10 |-> r0 * g.width + c1,
       idx01 |-> r1 * g.width + c0, idx11 |-> r1 * g.width + c1]

\* line 74 with the right and bottom edges tested one cell too far out
outOfRasterEdgeSlack(g, k) == k.c0 < 0 \/ k.r0 < 0 \/ k.c1 > g.width \/ k.r1 > g.height

\* line 74
outOfRaster(g, k) == k.c0 < 0 \/ k.r0 < 0 \/ k.c1 >= g.width \/ k.r1 >= g.height

\* line 86
maskRejects(g, k) ==
  g.hasValid /\ (at(g.valid, k.idx00) # 1 \/ at(g.valid, k.idx10) # 1
                 \/ at(g.valid, k.idx01) # 1 \/ at(g.valid, k.idx11) # 1)

\* lines 78-79 and 90-97, over the common denominator colD * rowD;
\* undefined * scale is NaN
bilinear(g, raster, k, xn, yn, den, scale, offset) ==
  LET T   == colD(g, den)
      U   == rowD(g, den)
      tn  == colN(g, xn, den) - k.c0 * T
      un  == rowN(g, yn, den) - k.r0 * U
      v00 == at(raster, k.idx00) * scale + offset
      v10 == at(raster, k.idx10) * scale + offset
      v01 == at(raster, k.idx01) * scale + offset
      v11 == at(raster, k.idx11) * scale + offset
      v0  == v00 * T + tn * (v10 - v00)
      v1  == v01 * T + tn * (v11 - v01)
  IN  IF \E i \in {k.idx00, k.idx10, k.idx01, k.idx11} : i \notin DOMAIN raster
      THEN [null |-> FALSE, nan |-> TRUE, num |-> 0, den |-> 1]
      ELSE [null |-> FALSE, nan |-> FALSE,
            num |-> v0 * U + un * (v1 - v0), den |-> T * U]

sampleGrid(g, raster, xn, yn, den, scale, offset) ==
  LET k == corners(g, xn, yn, den)
  IN  IF outOfRaster(g, k) THEN Null
      ELSE IF maskRejects(g, k) THEN Null
      ELSE bilinear(g, raster, k, xn, yn, den, scale, offset)

\* The array elements sampleGrid reads: valid[...] left to right until the
\* first one that is not 1 (line 86), then the four raster cells (90-93).
sampleReads(g, xn, yn, den) ==
  LET k == corners(g, xn, yn, den)
      order == <<k.idx00, k.idx10, k.idx01, k.idx11>>
      bad(i) == at(g.valid, order[i]) # 1
      firstBad == IF \E i \in 1..4 : bad(i)
                  THEN CHOOSE i \in 1..4 : bad(i) /\ \A j \in 1..(i-1) : ~bad(j)
                  ELSE 0
  IN  IF outOfRaster(g, k) THEN {}
      ELSE IF ~g.hasValid THEN {order[i] : i \in 1..4}
      ELSE IF firstBad # 0 THEN {order[i] : i \in 1..firstBad}
      ELSE {order[i] : i \in 1..4}

(***************************************************************************)
(* deygoutLoss, worker.js 105-147.  A profile is a sequence of points      *)
(* [d, h]; JavaScript index i is element i+1 here.  The code's             *)
(*   v = hExcess * sqrt((2/lambda) * (dTotal / (d1*d2))),                  *)
(* with hExcess = hExcessN / dTotal, is kept as the pair (hExcessN, d1*d2):*)
(* within one call dTotal and lambda are the same for every i, so for      *)
(* freqGHz > 0 the sign of v is the sign of hExcessN and v_i > v_j is      *)
(* decided by hExcessN^2 / (d1*d2) with signs.  For freqGHz = 0, 2/lambda  *)
(* is 0 and every v is 0; for freqGHz < 0 the square root is NaN.          *)
(* The profiles considered have strictly increasing distances >= 0, so     *)
(* d1*d2 > 0 at every interior point.                                      *)
(***************************************************************************)
pt(profile, i) == profile[i + 1]

\* Array.prototype.slice(a, b)
slice(profile, a, b) == SubSeq(profile, a + 1, b)

\* lines 111-113 and 116-122 for interior index i
fresnel(profile, i, freqGHz) ==
  LET dTotal == pt(profile, Len(profile) - 1).d
      h0 == pt(profile, 0).h
      h1 == pt(profile, Len(profile) - 1).h
      p  == pt(profile, i)
      d1 == p.d
      d2 == dTotal - d1
  IN  [dTotal |-> dTotal, d1 |-> d1, d2 |-> d2,
       \* hLos = hLosN / dTotal, hExcess = hExcessN / dTotal
       hLosN |-> h0 * dTotal + (h1 - h0) * d1,
       hExcessN |-> p.h * dTotal - (h0 * dTotal + (h1 - h0) * d1),
       v |-> [nan |-> freqGHz < 0,
              n |-> IF freqGHz = 0 THEN 0
                    ELSE p.h * dTotal - (h0 * dTotal + (h1 - h0) * d1),
              p |-> d1 * d2]]

sgn(n) == IF n > 0 THEN 1 ELSE IF n < 0 THEN -1 ELSE 0

\* v > maxV (line 123); maxV = -Infinity is best.idx = -1; NaN > x is false
vGreater(v, best) ==
  /\ ~v.nan
  /\ \/ best.idx = -1
     \/ sgn(v.n) * v.n * v.n * best.v.p > sgn(best.v.n) * best.v.n * best.v.n * v.p

\* the loop of lines 115-127, from index i on
RECURSIVE scan(_, _, _, _)
scan(profile, freqGHz, i, best) ==
  IF i >= Len(profile) - 1 THEN best
  ELSE LET v == fresnel(profile, i, freqGHz).v
       IN  scan(profile, freqGHz, i + 1,
                IF vGreater(v, best) THEN [idx |-> i, v |-> v] ELSE best)

\* knifeEdgeLoss (100-103) at the only place it is called, with v = vMain > 0
\* (line 129 has returned otherwise): 6.9 + 20 log10(sqrt((v-0.1)^2+1)+v-0.1)
\* is above 6.03 dB there.  The model counts losses in knife edges: one unit
\* stands for one strictly positive knifeEdgeLoss term.
knifeEdgeLoss(v) == IF v.n > 0 THEN 1 ELSE 0

\* line 140 without the obstruction point
leftOfExclusive(profile, maxIdx) == slice(profile, 0, maxIdx)

\* lines 140-141
leftOf(profile, maxIdx)  == slice(profile, 0, maxIdx + 1)
rightOf(profile, maxIdx) == slice(profile, maxIdx, Len(profile))

\* One invocation of deygoutLoss up to its recursive calls.
deygoutCall(profile, freqGHz) ==
  IF Len(profile) < 3
  THEN [profile |-> profile, terms |-> <<>>, maxIdx |-> -1, mainLoss |-> 0,
        recurse |-> FALSE, left |-> <<>>, right |-> <<>>]
  ELSE LET best == scan(profile, freqGHz, 1, [idx |-> -1, v |-> [nan |-> FALSE, n |-> 0, p |-> 1]])
           terms == [i \in 1..(Len(profile) - 2) |-> fresnel(profile, i, freqGHz)]
           positive == best.idx # -1 /\ best.v.n > 0
       IN  [profile |-> profile, terms |-> terms, maxIdx |-> best.idx,
            mainLoss |-> IF positive THEN knifeEdgeLoss(fresnel(profile, best.idx, freqGHz).v) ELSE 0,
            recurse |-> positive,
            left  |-> IF positive THEN leftOf(profile, best.idx) ELSE <<>>,
            right |-> IF positive THEN rightOf(profile, best.idx) ELSE <<>>]

(***************************************************************************)
(* Inputs.  A raster is what loadData fetches (metadata.json, chm_u16.bin, *)
(* dtm_u16.bin, valid_u8.bin) and computeCoverage posts to the worker.     *)
(***************************************************************************)
SampleW   == 3
SampleH   == 2
SampleDen == 2
MaxLen    == 4
MaxDist   == 4
MaxH      == 2

cells(w, h) == 0..(w * h - 1)

\* a w x h raster over an extent of extX by extY, placed so that minx and
\* miny are not 0; 16-bit codes decoded as raw * scale + offset
raster(w, h, extX, extY, hasValid, valid) ==
  [width |-> w, height |-> h,
   bounds |-> [minx |-> -2, maxx |-> -2 + extX, miny |-> 1, maxy |-> 1 + extY],
   hasValid |-> hasValid, valid |-> valid,
   dtm |-> [i \in cells(w, h) |-> ((i * i) % 5) + i], dtmScale |-> 2, dtmOffset |-> -3,
   chm |-> [i \in cells(w, h) |-> (i * 2) % 3], chmScale |-> 1, chmOffset |-> 0]

allValid(w, h) == [i \in cells(w, h) |-> 1]

\* no mask, a mask of ones, and the masks with one cell that is not 1
masks(w, h) ==
  {[hasValid |-> FALSE, valid |-> <<>>], [hasValid |-> TRUE, valid |-> allValid(w, h)]}
  \cup {[hasValid |-> TRUE, valid |-> [allValid(w, h) EXCEPT ![i] = b]] :
          i \in cells(w, h), b \in {0, 2}}

\* dx = 7/3 (not an integer), dy = 2
SampleRasters ==
  {raster(SampleW, SampleH, 2 * SampleW + 1, 2 * SampleH, m.hasValid, m.valid) :
     m \in masks(SampleW, SampleH)}

\* points from 2 outside the bounds to 2 outside, in steps of 1/den
SamplePoints(den) ==
  {[xn |-> xn, yn |-> yn, den |-> den] :
     xn \in (-4 * den)..((2 * SampleW + 1) * den),
     yn \in (-1 * den)..((2 * SampleH + 3) * den)}

SampleInputs ==
  {[g |-> g, xn |-> p.xn, yn |-> p.yn, den |-> p.den] :
     g \in SampleRasters, p \in UNION {SamplePoints(den) : den \in 1..SampleDen}}

RECURSIVE sorted(_)
sorted(S) ==
  IF S = {} THEN <<>>
  ELSE LET m == CHOOSE x \in S : \A y \in S : x <= y
       IN  <<m>> \o sorted(S \ {m})

\* profiles of 2..MaxLen points, strictly increasing distances in 0..MaxDist
Profiles ==
  UNION {{[i \in 1..Cardinality(S) |-> [d |-> sorted(S)[i], h |-> hs[i]]] :
            hs \in [1..Cardinality(S) -> 0..MaxH]} :
         S \in {T \in SUBSET (0..MaxDist) : Cardinality(T) \in 2..MaxLen}}

DFreqs == {-1, 0, 1}

(***************************************************************************)
(* Idle values of each group of variables.                                 *)
(***************************************************************************)
AppIdle ==
  /\ loaded = FALSE /\ worker = FALSE /\ closureF = None
  /\ statusEl = None /\ progressText = None /\ overlay = None
  /\ inbox = <<>> /\ outbox = <<>>
  /\ issued = <<>> /\ posted = <<>> /\ applied = <<>>
WorkerIdle == wpc = "idle" /\ wreq = None /\ r = 0 /\ data = <<>> /\ spin = 0
SampleIdle == sIn = None /\ sOut = None
DeyIdle    == dRoot = <<>> /\ dFreq = 0 /\ dStack = <<>> /\ dLoss = 0 /\ dCalls = <<>>

(***************************************************************************)
(* sampleGrid applied to one input.                                        *)
(***************************************************************************)
InitSample ==
  /\ AppIdle /\ WorkerIdle /\ DeyIdle
  /\ sIn \in SampleInputs
  /\ sOut = None

SampleCall ==
  /\ sIn # None /\ sOut = None
  /\ sOut' = [result |-> sampleGrid(sIn.g, sIn.g.dtm, sIn.xn, sIn.yn, sIn.den,
                                    sIn.g.dtmScale, sIn.g.dtmOffset),
              reads  |-> sampleReads(sIn.g, sIn.xn, sIn.yn, sIn.den)]
  /\ UNCHANGED <<sIn, appVars, chanVars, workerVars, histVars, deyVars>>

SpecSample == InitSample /\ [][SampleCall]_vars

(***************************************************************************)
(* deygoutLoss applied to one profile, the recursion run with an explicit  *)
(* stack of pending calls: the top of dStack is the call being made, a     *)
(* call that recurses replaces itself by its left and right calls (143,    *)
(* 144), and dLoss sums the mainLoss terms of line 146.                    *)
(***************************************************************************)
InitDeygout ==
  /\ AppIdle /\ WorkerIdle /\ SampleIdle
  /\ dRoot \in Profiles
  /\ dFreq \in DFreqs
  /\ dStack = <<dRoot>>
  /\ dLoss = 0
  /\ dCalls = <<>>

DeygoutStep ==
  /\ dStack # <<>>
  /\ LET c == deygoutCall(Head(dStack), dFreq)
     IN  /\ dCalls' = Append(dCalls, c)
         /\ dLoss' = dLoss + c.mainLoss
         /\ dStack' = IF c.recurse THEN <<c.left, c.right>> \o Tail(dStack)
                      ELSE Tail(dStack)
  /\ UNCHANGED <<dRoot, dFreq, appVars, chanVars, workerVars, histVars, sampleVars>>

SpecDeygout == InitDeygout /\ [][DeygoutStep]_vars

(***************************************************************************)
(* The worker, self.onmessage of worker.js.  A request is e.data; its      *)
(* field g holds width, height, bounds, the scales and offsets and the     *)
(* three buffers; gen is history (the request's number), not program data. *)
(*                                                                         *)
(* Coordinates of one output cell are fractions over 2*analysisSize, the   *)
(* ray-march samples fractions over 2*analysisSize*steps.  dist is a       *)
(* square root, so the model keeps dist^2 and writes the profile distance  *)
(* (dist*s)/steps of line 182 as the fraction s/steps of dist.             *)
(***************************************************************************)
\* lines 153, 156, 158-160: cell centre, offset from the click, dist^2,
\* all over den = 2 * analysisSize
cellGeometry(req, row, c) ==
  LET b   == req.g.bounds
      den == 2 * req.analysisSize
      xn  == b.minx * den + (2 * c + 1) * (b.maxx - b.minx)
      yn  == b.maxy * den - (2 * row + 1) * (b.maxy - b.miny)
      dxp == xn - req.clickMerc.x * den
      dyp == yn - req.clickMerc.y * den
  IN  [den |-> den, xn |-> xn, yn |-> yn, dxp |-> dxp, dyp |-> dyp,
       dist2 |-> dxp * dxp + dyp * dyp]

abs(n) == IF n < 0 THEN -n ELSE n

\* line 167 when dist > 0 and stepMeters # 0: a negative quotient floors below
\* 1; for stepMeters > 0, floor(dist / stepMeters) is the largest k with
\* (k * stepMeters)^2 <= dist^2
stepsOf(geo, stepMeters) ==
  IF stepMeters < 0 THEN 1
  ELSE LET m == geo.den * stepMeters
           kMax == (abs(geo.dxp) + abs(geo.dyp)) \div m
           k == CHOOSE j \in 0..kMax :
                  /\ j * m * j * m <= geo.dist2
                  /\ \A i \in (j + 1)..kMax : i * m * i * m > geo.dist2
       IN  Max(1, k)

\* stepMeters = 0: dist / 0 is Infinity, steps = Infinity, and the loop of
\* line 177 (s <= steps) has no end
marchIsEndless(req, geo) == geo.dist2 # 0 /\ req.stepMeters = 0

\* lines 177-192: the points pushed for s = from..steps
RECURSIVE march(_, _, _, _)
march(req, geo, steps, s) ==
  IF s > steps THEN <<>>
  ELSE LET den == geo.den * steps
           sxn == req.clickMerc.x * den + s * geo.dxp
           syn == req.clickMerc.y * den + s * geo.dyp
           zTerrain == sampleGrid(req.g, req.g.dtm, sxn, syn, den,
                                  req.g.dtmScale, req.g.dtmOffset)
           ant == IF s = 0 THEN req.txHeightM
                  ELSE IF s = steps THEN req.rxHeightM ELSE 0
       IN  (IF zTerrain.null THEN <<>>
            ELSE <<[d |-> [num |-> s, den |-> steps],
                    h |-> [num |-> zTerrain.num + ant * zTerrain.den,
                           den |-> zTerrain.den]]>>)
           \o march(req, geo, steps, s + 1)

\* The four bytes of one output cell.  The colour of a scored cell is a
\* function (lines 200-219: log10, pow) of the request's numbers and of the
\* profile handed to deygoutLoss; the model keeps the frequency and that
\* profile in its place.
ZeroPixel == [kind |-> "unwritten", alpha |-> "0",   freqGHz |-> 0, profile |-> <<>>]
SelfPixel == [kind |-> "self",      alpha |-> "255", freqGHz |-> 0, profile |-> <<>>]
NoData    == [kind |-> "nodata",    alpha |-> "0",   freqGHz |-> 0, profile |-> <<>>]

\* lines 155-219 for one cell whose ray march ends
cell(req, row, c) ==
  LET geo == cellGeometry(req, row, c)
  IN  IF geo.dist2 = 0 THEN SelfPixel
      ELSE LET steps == stepsOf(geo, req.stepMeters)
               profile == march(req, geo, steps, 0)
           IN  IF Len(profile) < 2 THEN NoData
               ELSE [kind |-> "scored", alpha |-> "margin",
                     freqGHz |-> req.freqGHz, profile |-> profile]

\* the message of line 223
progressMsg(req, row) ==
  [type |-> "progress", gen |-> req.gen,
   value |-> [num |-> row, den |-> req.analysisSize - 1]]

\* the message of lines 227-236
doneMsg(req, image) ==
  [type |-> "done", gen |-> req.gen, imageData |-> image,
   maxA |-> req.txPowerDbm - req.rxThresholdDbm,
   width |-> req.analysisSize, height |-> req.analysisSize]

\* the worker taking the newest request instead of the oldest
WorkerReceiveNewest ==
  /\ wpc = "idle" /\ inbox # <<>>
  /\ wreq' = inbox[Len(inbox)]
  /\ inbox' = SubSeq(inbox, 1, Len(inbox) - 1)
  /\ data' = [i \in cells(inbox[Len(inbox)].analysisSize, inbox[Len(inbox)].analysisSize) |-> ZeroPixel]
  /\ r' = 0
  /\ wpc' = "rows"
  /\ UNCHANGED <<spin, outbox, appVars, histVars, sampleVars, deyVars>>

\* the worker takes the oldest request: lines 1-150
WorkerReceive ==
  /\ wpc = "idle" /\ inbox # <<>>
  /\ wreq' = Head(inbox)
  /\ inbox' = Tail(inbox)
  /\ data' = [i \in cells(Head(inbox).analysisSize, Head(inbox).analysisSize) |-> ZeroPixel]
  /\ r' = 0
  /\ wpc' = "rows"
  /\ UNCHANGED <<spin, outbox, appVars, histVars, sampleVars, deyVars>>

\* one pass of the outer loop, lines 152-225
WorkerRow ==
  /\ wpc = "rows" /\ r < wreq.analysisSize
  /\ LET w == wreq.analysisSize
         stuck == {c \in 0..(w - 1) : marchIsEndless(wreq, cellGeometry(wreq, r, c))}
         upto == IF stuck = {} THEN w
                 ELSE CHOOSE c \in stuck : \A o \in stuck : c <= o
         row == [i \in cells(w, w) |->
                   IF i \in (r * w)..(r * w + upto - 1)
                   THEN cell(wreq, r, i - r * w) ELSE data[i]]
     IN  /\ data' = row
         /\ IF stuck # {}
            THEN /\ wpc' = "raymarch" /\ spin' = 0
                 /\ UNCHANGED <<r, outbox, posted>>
            ELSE /\ r' = r + 1
                 /\ IF r % 8 = 0
                    THEN /\ outbox' = Append(outbox, progressMsg(wreq, r))
                         /\ posted' = Append(posted, progressMsg(wreq, r))
                    ELSE UNCHANGED <<outbox, posted>>
                 /\ UNCHANGED <<wpc, spin>>
  /\ UNCHANGED <<wreq, inbox, appVars, issued, applied, sampleVars, deyVars>>

MaxSpin == 3

\* the loop of line 177 with steps = Infinity
RayMarchSpin ==
  /\ wpc = "raymarch" /\ spin < MaxSpin
  /\ spin' = spin + 1
  /\ UNCHANGED <<wpc, wreq, r, data, chanVars, appVars, histVars, sampleVars, deyVars>>

\* lines 227-236; the handler returns and its locals are gone
WorkerDone ==
  /\ wpc = "rows" /\ r = wreq.analysisSize
  /\ outbox' = Append(outbox, doneMsg(wreq, data))
  /\ posted' = Append(posted, doneMsg(wreq, data))
  /\ wpc' = "idle" /\ wreq' = None /\ r' = 0 /\ data' = <<>>
  /\ UNCHANGED <<spin, inbox, appVars, issued, applied, sampleVars, deyVars>>

(***************************************************************************)
(* The worker given one arbitrary request descriptor.                      *)
(***************************************************************************)
RasterN         == 3
MaxAnalysisSize == 9

request(g, click, f, stepMeters, size, gen) ==
  [g |-> g, clickMerc |-> click, freqGHz |-> f, stepMeters |-> stepMeters,
   analysisSize |-> size, txHeightM |-> 2, rxHeightM |-> 1,
   txPowerDbm |-> 14, rxThresholdDbm |-> -137, gen |-> gen]

\* cells 2 x 2; no mask, and a mask with the middle cell invalid
WorkerRasters ==
  {raster(RasterN, RasterN, 2 * RasterN, 2 * RasterN, m.hasValid, m.valid) :
     m \in {[hasValid |-> FALSE, valid |-> <<>>],
            [hasValid |-> TRUE,
             valid |-> [allValid(RasterN, RasterN) EXCEPT ![(RasterN * RasterN) \div 2] = 0]]}}

\* the top-left corner of the raster, a point inside it, a point outside it
WorkerClicks == {[x |-> -2, y |-> 1 + 2 * RasterN], [x |-> -1, y |-> 2 * RasterN],
                 [x |-> -3, y |-> 2 + 2 * RasterN]}

WorkerRequests ==
  {request(g, click, f, stepMeters, size, 1) :
     g \in WorkerRasters, click \in WorkerClicks, f \in {-1, 0, 1},
     stepMeters \in {-1, 0, 1, 2}, size \in 1..MaxAnalysisSize}

InitWorker ==
  /\ SampleIdle /\ DeyIdle
  /\ loaded = FALSE /\ worker = FALSE /\ closureF = None
  /\ statusEl = None /\ progressText = None /\ overlay = None
  /\ \E req \in WorkerRequests : inbox = <<req>> /\ issued = <<req>>
  /\ outbox = <<>> /\ posted = <<>> /\ applied = <<>>
  /\ WorkerIdle

NextWorker == WorkerReceive \/ WorkerRow \/ RayMarchSpin \/ WorkerDone

SpecWorker == InitWorker /\ [][NextWorker]_vars

(***************************************************************************)
(* The main thread, src/unnamed/part_000, with the worker.                 *)
(***************************************************************************)
MaxRequests == 2
MaxGridSize == 2
StepMeters  == 50

\* what loadData fetches: cells of 40 m, a mask of ones
AppRaster ==
  raster(RasterN, RasterN, 40 * RasterN, 40 * RasterN, TRUE, allValid(RasterN, RasterN))

\* freqSlider.value, the click (already projected, line 192), gridSize.value
SliderFreqs == {1, 2}
AppClicks   == {[x |-> 18, y |-> 101]}
GridSizes   == 1..MaxGridSize

\* loadData, lines 267-387: the rasters are fetched, then the handlers that
\* call computeCoverage are registered
LoadData ==
  /\ ~loaded
  /\ loaded' = TRUE
  /\ UNCHANGED <<worker, closureF, statusEl, progressText, overlay,
                 chanVars, workerVars, histVars, sampleVars, deyVars>>

\* Math.round(value * 100), lines 198-200; 0/0 is NaN
percent(value) ==
  IF value.den = 0 THEN [nan |-> TRUE, pct |-> 0]
  ELSE [nan |-> FALSE, pct |-> (200 * value.num + value.den) \div (2 * value.den)]

\* computeCoverage, lines 184-265
ComputeCoverage ==
  /\ loaded
  /\ Len(issued) < MaxRequests
  /\ \E f \in SliderFreqs, click \in AppClicks, size \in GridSizes :
       LET req == request(AppRaster, click, f, StepMeters, size, Len(issued) + 1)
       IN  /\ statusEl' = <<"Lasketaan...">>
           /\ progressText' = [nan |-> FALSE, pct |-> 0]
           /\ IF ~worker
              THEN worker' = TRUE /\ closureF' = f
              ELSE UNCHANGED <<worker, closureF>>
           /\ inbox' = Append(inbox, req)
           /\ issued' = Append(issued, req)
  /\ UNCHANGED <<loaded, overlay, outbox, workerVars, posted, applied, sampleVars, deyVars>>

\* worker.onmessage on a 'progress' message, lines 197-202
OnProgress ==
  /\ outbox # <<>> /\ Head(outbox).type = "progress"
  /\ progressText' = percent(Head(outbox).value)
  /\ outbox' = Tail(outbox)
  /\ UNCHANGED <<loaded, worker, closureF, statusEl, overlay, inbox,
                 workerVars, histVars, sampleVars, deyVars>>

\* worker.onmessage on a 'done' message, lines 203-231
OnDone ==
  /\ outbox # <<>> /\ Head(outbox).type = "done"
  /\ LET msg == Head(outbox)
     IN  /\ overlay' = [imageData |-> msg.imageData, width |-> msg.width,
                        height |-> msg.height, gen |-> msg.gen]
         /\ statusEl' = <<"Valmis", closureF>>
         /\ progressText' = [nan |-> FALSE, pct |-> 100]
         /\ applied' = Append(applied, [gen |-> msg.gen, latest |-> Len(issued),
                                        statusF |-> closureF])
  /\ outbox' = Tail(outbox)
  /\ UNCHANGED <<loaded, worker, closureF, inbox, workerVars, issued, posted,
                 sampleVars, deyVars>>

Init == AppIdle /\ WorkerIdle /\ SampleIdle /\ DeyIdle

Next ==
  \/ LoadData \/ ComputeCoverage \/ OnProgress \/ OnDone
  \/ WorkerReceive \/ WorkerRow \/ WorkerDone

Spec == Init /\ [][Next]_vars

(***************************************************************************)
(* Properties of sampleGrid.                                               *)
(***************************************************************************)
\* the column c with minx + c*dx <= x < minx + (c+1)*dx, dx = (maxx-minx)/width
floorCol(in) ==
  CHOOSE c \in -(20 * in.g.width)..(20 * in.g.width) :
    LET e == (in.g.bounds.maxx - in.g.bounds.minx) * in.den
        o == (in.xn - in.g.bounds.minx * in.den) * in.g.width
    IN  c * e <= o /\ o < (c + 1) * e

\* the row q with maxy - (q+1)*dy < y <= maxy - q*dy, dy = (maxy-miny)/height
floorRow(in) ==
  CHOOSE q \in -(20 * in.g.height)..(20 * in.g.height) :
    LET e == (in.g.bounds.maxy - in.g.bounds.miny) * in.den
        o == (in.g.bounds.maxy * in.den - in.yn) * in.g.height
    IN  q * e <= o /\ o < (q + 1) * e

inRaster(g, q, c) == q \in 0..(g.height - 1) /\ c \in 0..(g.width - 1)

usable(g, q, c) ==
  inRaster(g, q, c) /\ (g.hasValid => g.valid[q * g.width + c] = 1)

enclosing(in) ==
  {<<floorRow(in), floorCol(in)>>, <<floorRow(in), floorCol(in) + 1>>,
   <<floorRow(in) + 1, floorCol(in)>>, <<floorRow(in) + 1, floorCol(in) + 1>>}

decoded(g, q, c) == g.dtm[q * g.width + c] * g.dtmScale + g.dtmOffset

\* (1-t)(1-u) v00 + t(1-u) v10 + (1-t)u v01 + tu v11 as numerator over T*U
weighted(in) ==
  LET g == in.g
      c0 == floorCol(in)
      r0 == floorRow(in)
      T  == (g.bounds.maxx - g.bounds.minx) * in.den
      U  == (g.bounds.maxy - g.bounds.miny) * in.den
      tn == (in.xn - g.bounds.minx * in.den) * g.width - c0 * T
      un == (g.bounds.maxy * in.den - in.yn) * g.height - r0 * U
  IN  [num |-> (T - tn) * (U - un) * decoded(g, r0, c0)
               + tn * (U - un) * decoded(g, r0, c0 + 1)
               + (T - tn) * un * decoded(g, r0 + 1, c0)
               + tn * un * decoded(g, r0 + 1, c0 + 1),
       den |-> T * U]

\* C5: sampleGrid returns null exactly when one of the four enclosing cells
\* (r0,c0), (r0,c1), (r1,c0), (r1,c1) lies outside the width x height raster
\* or is not flagged 1 in the validity mask (when there is a mask); otherwise
\* it returns the bilinear interpolation of the four decoded values; and it
\* reads no index outside the raster.
C5_SampleNullIffCellUnusable ==
  sOut # None =>
    /\ sOut.result.null <=> (\E k \in enclosing(sIn) : ~usable(sIn.g, k[1], k[2]))
    /\ ~sOut.result.null =>
         /\ ~sOut.result.nan
         /\ sOut.result.num * weighted(sIn).den = weighted(sIn).num * sOut.result.den
    /\ sOut.reads \subseteq cells(sIn.g.width, sIn.g.height)

\* a sample strictly inside a cell of a masked raster, interpolated from four
\* valid cells
C5_Witness ==
  /\ sOut # None /\ ~sOut.result.null /\ sIn.g.hasValid
  /\ \E i \in DOMAIN sIn.g.valid : sIn.g.valid[i] # 1
  /\ Cardinality(sOut.reads) = 4
  /\ colN(sIn.g, sIn.xn, sIn.den) % colD(sIn.g, sIn.den) # 0
  /\ rowN(sIn.g, sIn.yn, sIn.den) % rowD(sIn.g, sIn.den) # 0

(***************************************************************************)
(* Properties of deygoutLoss.                                              *)
(***************************************************************************)
first(profile) == profile[1]
last(profile)  == profile[Len(profile)]

\* every point lies on the straight line joining the first and last points
onLineOfSight(profile) ==
  \A i \in 1..Len(profile) :
    (profile[i].h - first(profile).h) * (last(profile).d - first(profile).d)
      = (last(profile).h - first(profile).h) * (profile[i].d - first(profile).d)

\* C4: deygoutLoss(profile) returns 0 for every profile, whatever the distance
\* of its first point, whose points all lie on the straight line joining its
\* first and last points.
C4_LineOfSightLossIsZero ==
  (dStack = <<>> /\ dRoot # <<>> /\ onLineOfSight(dRoot)) => dLoss = 0

\* C6: in every call of deygoutLoss, recursive calls included, the terms of
\* each interior point are relative to the (sub-)profile's own first point:
\* d_total = d(last) - d(first), d1 = d(i) - d(first), d2 = d_total - d1,
\* h_los = h_first + (h_last - h_first) * d1 / d_total.
C6_DistancesRelativeToFirstPoint ==
  \A n \in 1..Len(dCalls) :
    LET call   == dCalls[n]
        dTotal == last(call.profile).d - first(call.profile).d
    IN  \A i \in DOMAIN call.terms :
          LET d1 == pt(call.profile, i).d - first(call.profile).d
          IN  /\ call.terms[i].dTotal = dTotal
              /\ call.terms[i].d1 = d1
              /\ call.terms[i].d2 = dTotal - d1
              /\ call.terms[i].hLosN * dTotal
                   = (first(call.profile).h * dTotal
                      + (last(call.profile).h - first(call.profile).h) * d1)
                     * call.terms[i].dTotal

splitIsInclusive(call) ==
  LET n == Len(call.profile)
      k == call.maxIdx + 1    \* position of the obstruction in 1..n
  IN  /\ call.left  = [i \in 1..k |-> call.profile[i]]
      /\ call.right = [i \in 1..(n - k + 1) |-> call.profile[k - 1 + i]]
      /\ Len(call.left) >= 2  /\ Len(call.left) < n
      /\ Len(call.right) >= 2 /\ Len(call.right) < n

\* calls still to be made, at most: 2m-3 for a pending profile of m points
RECURSIVE pendingCalls(_)
pendingCalls(stack) ==
  IF stack = <<>> THEN 0
  ELSE 2 * Len(Head(stack)) - 3 + pendingCalls(Tail(stack))

\* C7: a call on n >= 3 points that recurses passes exactly first..obstruction
\* to the left call and obstruction..last to the right call, each of at least
\* 2 and fewer than n points; so the calls made plus those still to be made
\* never exceed 2n-3 for a profile of n points, every pending call is on at
\* least 2 points, and deygoutLoss terminates on every finite profile.
C7_SplitShrinksAndTerminates ==
  dRoot # <<>> =>
    /\ \A n \in 1..Len(dCalls) : dCalls[n].recurse => splitIsInclusive(dCalls[n])
    /\ \A n \in 1..Len(dStack) : Len(dStack[n]) >= 2
    /\ Len(dCalls) + pendingCalls(dStack) <= 2 * Len(dRoot) - 3

\* a profile of 4 points split twice
C7_Witness ==
  /\ dStack = <<>> /\ Len(dRoot) = 4
  /\ Cardinality({n \in 1..Len(dCalls) : dCalls[n].recurse}) = 2

(***************************************************************************)
(* Properties of the worker.                                               *)
(***************************************************************************)
validRequest(req) == req.freqGHz > 0 /\ req.stepMeters > 0

\* the progress values of request gen among the first n messages posted
progressOf(gen, n) ==
  LET idx == {j \in 1..n : posted[j].type = "progress" /\ posted[j].gen = gen}
  IN  [i \in 1..Cardinality(idx) |-> posted[sorted(idx)[i]].value]

inUnitInterval(v) == v.den > 0 /\ 0 <= v.num /\ v.num <= v.den

\* C2: for every run to completion over R = analysisSize >= 1 rows, the
\* progress values posted are non-decreasing, each lies in [0,1], the first
\* is >= 0, and the last one posted before 'done' equals 1.0.
C2_ProgressEndsAtOne ==
  \A n \in 1..Len(posted) :
    (posted[n].type = "done" /\ validRequest(issued[posted[n].gen])) =>
      LET p == progressOf(posted[n].gen, n)
      IN  /\ Len(p) >= 1
          /\ \A i \in 1..Len(p) : inUnitInterval(p[i])
          /\ \A i \in 1..(Len(p) - 1) : p[i].num * p[i + 1].den <= p[i + 1].num * p[i].den
          /\ p[Len(p)].den > 0 /\ p[Len(p)].num = p[Len(p)].den

\* C3: on a request with freqGHz <= 0 or stepMeters <= 0 the worker computes
\* nothing: it writes no pixel, posts no 'progress' and no 'done', and makes
\* no pass of the row loop (and so never marches a ray without end).
C3_InvalidRequestComputesNothing ==
  /\ \A n \in 1..Len(posted) : validRequest(issued[posted[n].gen])
  /\ (wreq # None /\ ~validRequest(wreq)) =>
       /\ \A i \in DOMAIN data : data[i] = ZeroPixel
       /\ r = 0
       /\ wpc # "raymarch"

\* terrain height at the point the fraction d of the way from the click to
\* the centre of the cell
terrainAt(req, geo, d) ==
  sampleGrid(req.g, req.g.dtm,
             req.clickMerc.x * geo.den * d.den + d.num * geo.dxp,
             req.clickMerc.y * geo.den * d.den + d.num * geo.dyp,
             geo.den * d.den, req.g.dtmScale, req.g.dtmOffset)

RECURSIVE gcd(_, _)
gcd(a, b) == IF b = 0 THEN abs(a) ELSE gcd(b, a % b)

\* a fraction in lowest terms
lowest(q) == [num |-> q.num \div gcd(q.num, q.den), den |-> q.den \div gcd(q.num, q.den)]

\* point p is the sample at its distance, `ant` metres above the terrain
heightIs(req, geo, p, ant) ==
  LET z == terrainAt(req, geo, p.d)
  IN  ~z.null /\ lowest(p.h) = lowest([num |-> z.num + ant * z.den, den |-> z.den])

transmitterToTarget(req, geo, profile) ==
  LET n == Len(profile)
  IN  /\ n >= 2
      /\ \A i \in 1..(n - 1) :
           profile[i].d.num * profile[i + 1].d.den < profile[i + 1].d.num * profile[i].d.den
      /\ profile[1].d.num = 0
      /\ heightIs(req, geo, profile[1], req.txHeightM)
      /\ profile[n].d.num = profile[n].d.den
      /\ heightIs(req, geo, profile[n], req.rxHeightM)
      /\ \A i \in 2..(n - 1) : heightIs(req, geo, profile[i], 0)

\* C8: every output cell at non-zero distance from the transmitter is either
\* written as no-data, or scored on a profile of strictly increasing
\* distances whose first point is the transmitter sample (distance 0, terrain
\* + txHeightM), whose last point is the target sample (distance dist,
\* terrain + rxHeightM), with bare terrain height in between.
C8_ScoredProfileRunsFromTransmitterToTarget ==
  (wreq # None /\ validRequest(wreq)) =>
    \A i \in DOMAIN data :
      LET geo == cellGeometry(wreq, i \div wreq.analysisSize, i % wreq.analysisSize)
      IN  (data[i].kind # "unwritten" /\ geo.dist2 # 0) =>
            \/ data[i].kind = "nodata"
            \/ data[i].kind = "scored" /\ transmitterToTarget(wreq, geo, data[i].profile)

(***************************************************************************)
(* Properties of the main thread with the worker.                          *)
(***************************************************************************)
\* C1: a 'done' computed for an older request is never applied by the caller
\* after a newer request has been issued: every result applied belongs to the
\* latest request issued at that time, and no request has two results applied.
C1_NoStaleResultApplied ==
  /\ \A n \in 1..Len(applied) : applied[n].gen = applied[n].latest
  /\ \A n, m \in 1..Len(applied) : applied[n].gen = applied[m].gen => n = m

\* C10: when the caller handles a 'done', the frequency it writes into the
\* status text is the frequency of the request that produced the result.
C10_StatusShowsFrequencyOfResult ==
  \A n \in 1..Len(applied) : applied[n].statusF = issued[applied[n].gen].freqGHz

\* the image the worker computes for a request
imageOf(req) ==
  [i \in cells(req.analysisSize, req.analysisSize) |->
     cell(req, i \div req.analysisSize, i % req.analysisSize)]

doneGens == [n \in 1..Cardinality({j \in 1..Len(posted) : posted[j].type = "done"}) |->
               posted[sorted({j \in 1..Len(posted) : posted[j].type = "done"})[n]].gen]

quiescent == inbox = <<>> /\ outbox = <<>> /\ wpc = "idle"

\* C9: the worker posts exactly one 'done' per request, in the order the
\* requests were posted, each after all the 'progress' messages of its
\* request; and once every posted request has been processed and every
\* message handled, the overlay is the result of the last request issued.
C9_OneDonePerRequestInOrder ==
  /\ doneGens = [n \in 1..Len(doneGens) |-> n]
  /\ Len(doneGens) + Len(inbox) + (IF wpc = "idle" THEN 0 ELSE 1) = Len(issued)
  /\ \A n \in 1..(Len(posted) - 1) :
       /\ posted[n].gen <= posted[n + 1].gen
       /\ posted[n].type = "done" => posted[n].gen < posted[n + 1].gen
  /\ \A n \in 1..Len(posted) :
       posted[n].type = "done" => posted[n].imageData = imageOf(issued[posted[n].gen])
  /\ (quiescent /\ issued # <<>>) =>
       /\ overlay # None
       /\ overlay.gen = Len(issued)
       /\ overlay.imageData = imageOf(issued[Len(issued)])

\* two different requests issued back to back, both processed
C9_Witness ==
  /\ quiescent /\ Len(issued) = 2
  /\ issued[1].analysisSize # issued[2].analysisSize
  /\ Len(applied) = 2 /\ applied[1].latest = 2
  /\ overlay.gen = 2

====
